---- MODULE Spec2Model ----
(***************************************************************************)
(* A model of prelockd-rs (src/src/main.rs): daemon_setup reads a TOML     *)
(* configuration, builds the lock policy, scans the configured locations,  *)
(* matches the candidates against the load patterns, sorts the matches and *)
(* maps and locks them while they fit max_total_size; main then reports    *)
(* the usage or idles.                                                     *)
(*                                                                         *)
(* Strings are sequences of tokens: characters for size texts and sorting  *)
(* method names, path segments for locations, paths and patterns.          *)
(*                                                                         *)
(* The file system does not change while daemon_setup runs: a file has the *)
(* size the scan read when it is matched and when it is mapped.            *)
(***************************************************************************)
EXTENDS Integers, Sequences, FiniteSets, TLC

VARIABLES
    config,      \* the configuration file: what fs::read_to_string / toml give
    fs,          \* the file system: location name -> what is found there
    memory_size, \* sys.total_memory()
    usage,       \* args.usage
    pc,          \* position of the process in main / daemon_setup
    err,         \* the Err(..) daemon_setup returned, "" if none
    lock,        \* the Lock struct of daemon_setup
    files,       \* Vec<DirEntry> of daemon_setup: the candidates
    patterns,    \* the flattened pattern list
    to_load,     \* Vec<(String, FileInfo)> of daemon_setup
    idx,         \* index of the loop in progress (location, pattern or target)
    LOADED,      \* the static LOADED: Vec<(String, Mmap)>
    outcomes,    \* what happened to each target the allocator loop has visited
    report       \* the lines daemon_usage printed

vars == <<config, fs, memory_size, usage, pc, err, lock, files, patterns,
          to_load, idx, LOADED, outcomes, report>>

-----------------------------------------------------------------------------
(* Program constants *)

KIB == 1024
MIB == 1048576
GIB == 1073741824

DefaultMaxFileSize == 20 * MIB

-----------------------------------------------------------------------------
(* Bounds of the model *)

MaxTextLen == 3      \* longest size text tried
MaxFiles == 3        \* most directory entries in the size-varying scenarios
TotalMemory == 1000  \* sys.total_memory() of the modelled host

-----------------------------------------------------------------------------
(* Sequences *)

Front(s) == SubSeq(s, 1, Len(s) - 1)
Last(s) == s[Len(s)]

RECURSIVE SeqsUpTo(_, _)
SeqsUpTo(S, n) ==
    IF n = 0 THEN {<<>>}
    ELSE LET shorter == SeqsUpTo(S, n - 1)
         IN  shorter \cup {Append(s, x) : s \in {t \in shorter : Len(t) = n - 1}, x \in S}

RECURSIVE SumLen(_)
SumLen(s) == IF s = <<>> THEN 0 ELSE s[1].len + SumLen(Tail(s))

Sizes(s) == [i \in 1..Len(s) |-> s[i].size]
Lens(s) == [i \in 1..Len(s) |-> s[i].len]
Paths(s) == [i \in 1..Len(s) |-> s[i].path]

-----------------------------------------------------------------------------
(* TOML values, as far as daemon_setup tells them apart *)

Absent == [kind |-> "absent", s |-> <<>>, a |-> <<>>]   \* no such key
Other == [kind |-> "other", s |-> <<>>, a |-> <<>>]     \* neither string, array nor table
Str(s) == [kind |-> "str", s |-> s, a |-> <<>>]
Arr(a) == [kind |-> "arr", s |-> <<>>, a |-> a]

\* Value::as_str().unwrap_or(d)
AsStrOr(v, d) == IF v.kind = "str" THEN v.s ELSE d

-----------------------------------------------------------------------------
(* size_to_bytes *)

Digits == {"0", "1", "2", "3", "4", "5", "6", "7", "8", "9"}
UnitClass == {"m", ",", "k", "g", "%"}

DigitVal(c) ==
    CASE c = "0" -> 0 [] c = "1" -> 1 [] c = "2" -> 2 [] c = "3" -> 3
      [] c = "4" -> 4 [] c = "5" -> 5 [] c = "6" -> 6 [] c = "7" -> 7
      [] c = "8" -> 8 [] c = "9" -> 9

RECURSIVE DecVal(_)
DecVal(s) == IF s = <<>> THEN 0 ELSE 10 * DecVal(Front(s)) + DigitVal(Last(s))

RECURSIVE DigitPrefix(_)
DigitPrefix(s) ==
    IF s # <<>> /\ s[1] \in Digits THEN <<s[1]>> \o DigitPrefix(Tail(s)) ELSE <<>>

\* STB_RE.captures(size) for the regex (\d*)([m,k,g,%])? : the search is not
\* anchored and both parts may match nothing, so the leftmost match starts at
\* offset 0 of every input; group 1 is the greedy run of digits there, group 2
\* the one character of the class that follows, group 0 the whole match.
STB_Captures(size) ==
    LET g1 == DigitPrefix(size)
        rest == SubSeq(size, Len(g1) + 1, Len(size))
        g2 == IF rest # <<>> /\ rest[1] \in UnitClass THEN <<rest[1]>> ELSE <<>>
    IN  [matched |-> TRUE, g0 |-> g1 \o g2, g1 |-> g1, g2 |-> g2]

\* str::parse::<usize>() of a text of digits and unit characters
ParseUsize(s) ==
    IF s = <<>> \/ \E i \in 1..Len(s) : s[i] \notin Digits
    THEN [ok |-> FALSE, v |-> 0]
    ELSE [ok |-> TRUE, v |-> DecVal(s)]

None == [some |-> FALSE, v |-> 0]
Some(v) == [some |-> TRUE, v |-> v]
UnwrapOr(o, d) == IF o.some THEN o.v ELSE d

size_to_bytes(size, lck) ==
    LET data == STB_Captures(size)
    IN  IF data.matched
        THEN LET p == ParseUsize(data.g0)          \* data.get(0): the whole match
                 value == IF p.ok THEN p.v ELSE 0  \* unwrap_or(0)
             IN  IF value # 0
                 THEN CASE data.g1 = <<"k">> -> Some(value * KIB)   \* data.get(1)
                        [] data.g1 = <<"m">> -> Some(value * MIB)
                        [] data.g1 = <<"g">> -> Some(value * GIB)
                        [] data.g1 = <<"%">> -> Some(lck.memory_size \div value)
                        [] OTHER -> Some(value)
                 ELSE Some(0)
        ELSE None

-----------------------------------------------------------------------------
(* The configuration and the file system the daemon is started on *)

LocNames == {"lib", "bin", "etc", "var"}
GroupNames == {"g1", "g2"}

\* A directory entry: whether read_dir yields it (entry_ok), whether its
\* metadata can be read when scanned (meta_ok) and again when matched
\* (remeta), and what the metadata says.
Entry(name, kind, size) ==
    [name |-> name, entry_ok |-> TRUE, meta_ok |-> TRUE, remeta |-> TRUE,
     kind |-> kind, size |-> size]
File(name, size) == Entry(name, "file", size)
Dir(entries) == [kind |-> "dir", entries |-> entries]
Missing == [kind |-> "missing", entries |-> <<>>]

\* fs::metadata(location) / fs::read_dir(location)
Location(loc) == IF Len(loc) = 1 /\ loc[1] \in DOMAIN fs THEN fs[loc[1]] ELSE Missing

\* A DirEntry names its directory and its place in the listing.
DirEntryOf(loc, i) == [loc |-> loc, i |-> i]
EntryData(de) == fs[de.loc].entries[de.i]
PathOf(de) == <<de.loc, EntryData(de).name>>

\* Table indexing load[key]
LoadKey(key) ==
    IF key = <<"files">> THEN config.load_files
    ELSE IF key = <<"lists">> THEN config.load_lists
    ELSE IF Len(key) = 1 /\ key[1] \in GroupNames THEN config.groups[key[1]]
    ELSE Absent

EntryNames == <<"a", "b", "c", "d">>
FilesOfSizes(sizes) == [i \in 1..Len(sizes) |-> File(EntryNames[i], sizes[i])]

BaseFs ==
    [l \in LocNames |->
        CASE l = "lib" -> Dir(FilesOfSizes(<<10, 20, 5>>))
          [] l = "bin" ->
                Dir(<<File("a", 10),
                      Entry("sub", "dir", 0),
                      [File("x", 5) EXCEPT !.meta_ok = FALSE],
                      [File("y", 5) EXCEPT !.entry_ok = FALSE],
                      [File("z", 5) EXCEPT !.remeta = FALSE],
                      File("c", 5)>>)
          [] l = "etc" -> [kind |-> "unlistable", entries |-> <<>>]
          [] l = "var" -> [kind |-> "file", entries |-> <<>>]]

BaseConfig ==
    [file |-> "ok", lock |-> "table", load |-> "table",
     max_file_size |-> Str(<<"3", "0">>),
     max_total_size |-> Str(<<"2", "5">>),
     locations |-> Arr(<<Str(<<"lib">>)>>),
     sorting_method |-> Str(<<"f", "l">>),
     load_files |-> Arr(<<Str(<<".*">>)>>),
     load_lists |-> Arr(<<>>),
     groups |-> [g \in GroupNames |->
                    IF g = "g1" THEN Arr(<<Str(<<"a">>), Str(<<"c">>)>>) ELSE Other]]

\* The size texts: up to MaxTextLen digits, then nothing, a unit or another
\* character; and some texts with a character before or between.
SizeDigits == {"0", "1", "2", "5"}
SizeSuffixes == {<<>>, <<"k">>, <<"m">>, <<"g">>, <<"%">>, <<"x">>}
SizeTexts ==
    {d \o u : d \in SeqsUpTo(SizeDigits, MaxTextLen), u \in SizeSuffixes}
    \cup {<<"x", "1">>, <<"k", "1">>, <<"1", "k", "k">>, <<"1", "x", "k">>, <<",">>}
SizeValues == {Absent, Other} \cup {Str(t) : t \in SizeTexts}

SortingValues ==
    {Absent, Other} \cup
    {Str(t) : t \in {<<"f", "l">>, <<"F", "L">>, <<"l", "s">>, <<"L", "s">>,
                     <<"s", "l">>, <<"z">>, <<>>}}

FileSizes == {10, 30, 31}

PatternValues ==
    {Other} \cup {Str(p) : p \in {<<"a">>, <<".*">>, <<"lib", "a">>, <<"(">>}}
ListValues == {Other} \cup {Str(l) : l \in {<<"g1">>, <<"g2">>, <<"g3">>, <<"files">>}}
LocationValues ==
    {Other} \cup {Str(l) : l \in {<<"lib">>, <<"bin">>, <<"etc">>, <<"var">>, <<"none">>}}

ArrayValues(S) == {Absent, Other} \cup {Arr(a) : a \in SeqsUpTo(S, 2)}

\* The configurations tried, each on the file system beside it.
Scenarios ==
    \* the two size limits, every text
    {[config |-> [BaseConfig EXCEPT !.max_file_size = v], fs |-> BaseFs] : v \in SizeValues}
    \cup
    {[config |-> [BaseConfig EXCEPT !.max_total_size = v], fs |-> BaseFs] : v \in SizeValues}
    \cup
    \* the directory's files and the sorting method
    {[config |-> [BaseConfig EXCEPT !.sorting_method = Str(m),
                                    !.max_total_size = Str(<<"6", "0">>)],
      fs |-> [BaseFs EXCEPT !["lib"] = Dir(FilesOfSizes(sizes))]] :
        m \in {<<"f", "l">>, <<"s", "l">>, <<"l", "s">>},
        sizes \in SeqsUpTo(FileSizes, MaxFiles) \cup {<<30, 10, 20>>}}
    \cup
    {[config |-> [BaseConfig EXCEPT !.sorting_method = v], fs |-> BaseFs] : v \in SortingValues}
    \cup
    \* the load table
    {[config |-> [BaseConfig EXCEPT !.load_files = v, !.load_lists = Arr(<<Str(<<"g1">>)>>)],
      fs |-> BaseFs] : v \in ArrayValues(PatternValues)}
    \cup
    {[config |-> [BaseConfig EXCEPT !.load_files = Arr(<<Str(<<"a">>)>>), !.load_lists = v],
      fs |-> BaseFs] : v \in ArrayValues(ListValues)}
    \cup
    \* the locations
    {[config |-> [BaseConfig EXCEPT !.locations = v, !.max_total_size = Str(<<"5", "0">>)],
      fs |-> BaseFs] : v \in ArrayValues(LocationValues)}
    \cup
    \* the file and its two tables
    {[config |-> [BaseConfig EXCEPT !.file = f], fs |-> BaseFs] : f \in {"unreadable", "malformed"}}
    \cup
    {[config |-> [BaseConfig EXCEPT !.lock = k], fs |-> BaseFs] : k \in {"absent", "other"}}
    \cup
    {[config |-> [BaseConfig EXCEPT !.load = k], fs |-> BaseFs] : k \in {"absent", "other"}}

NoLock ==
    [current_size |-> 0, max_file_size |-> 0, max_total_size |-> 0,
     memory_size |-> 0, sorting_method |-> "SL"]

Init ==
    /\ \E sc \in Scenarios : config = sc.config /\ fs = sc.fs
    /\ memory_size = TotalMemory
    /\ usage \in BOOLEAN
    /\ pc = "start"
    /\ err = ""
    /\ lock = NoLock
    /\ files = <<>>
    /\ patterns = <<>>
    /\ to_load = <<>>
    /\ idx = 0
    /\ LOADED = <<>>
    /\ outcomes = <<>>
    /\ report = <<>>

-----------------------------------------------------------------------------
(* daemon_setup *)

Goto(p) == pc' = p /\ err' = ""
Fail(msg) == pc' = "err" /\ err' = msg
Panic == pc' = "panic" /\ err' = ""

\* Lines 88-105: read and parse the file, build the Lock with its defaults.
ReadConfig ==
    /\ pc = "start"
    /\ IF config.file # "ok"
       THEN Fail("Failed reading") /\ lock' = lock
       ELSE /\ Goto("lock")
            /\ lock' = [current_size |-> 0,
                        max_file_size |-> DefaultMaxFileSize,
                        memory_size |-> memory_size,
                        max_total_size |-> memory_size \div 10,
                        sorting_method |-> "SL"]
    /\ UNCHANGED <<config, fs, memory_size, usage, files, patterns, to_load, idx,
                   LOADED, outcomes, report>>

\* Lines 109-117 and 157-159: the two limits. Indexing a table by a key it
\* lacks panics; a value that is no string reads as "0".
BuildPolicy ==
    /\ pc = "lock"
    /\ LET mfs == UnwrapOr(size_to_bytes(AsStrOr(config.max_file_size, <<"0">>), lock),
                           lock.max_file_size)
           withFile == [lock EXCEPT !.max_file_size = mfs]
           mts == UnwrapOr(size_to_bytes(AsStrOr(config.max_total_size, <<"0">>), withFile),
                           lock.max_total_size)
           withBoth == [withFile EXCEPT !.max_total_size = mts]
       IN  CASE config.lock = "absent" -> Panic /\ lock' = lock
             [] config.lock = "other" -> Fail("lock table is invalid") /\ lock' = lock
             [] OTHER ->
                  IF config.max_file_size.kind = "absent"
                  THEN Panic /\ lock' = lock
                  ELSE IF config.max_total_size.kind = "absent"
                  THEN Panic /\ lock' = withFile
                  ELSE /\ lock' = withBoth
                       /\ IF mts = 0 THEN Fail("Max total size is zero!")
                          ELSE IF mfs = 0 THEN Fail("Max file size is zero!")
                          ELSE Goto("scan")
    /\ idx' = 1
    /\ UNCHANGED <<config, fs, memory_size, usage, files, patterns, to_load,
                   LOADED, outcomes, report>>

\* A test that drops the file as large as the cap.
KeepsFileBelow(e, max_file_size) == e.kind = "file" /\ e.size < max_file_size

\* Line 128: the test on an entry's metadata.
KeepsFile(e, max_file_size) == e.kind = "file" /\ e.size <= max_file_size

\* Lines 126-128: an entry that could not be read, or whose metadata could
\* not be read, is passed over by the two if-lets before the test.
KeepsEntry(e, max_file_size) ==
    /\ e.entry_ok
    /\ e.meta_ok
    /\ KeepsFile(e, max_file_size)

\* A scan that gives up on a directory at the first entry it cannot read.
RECURSIVE ScanEntriesUntilFailure(_, _, _, _)
ScanEntriesUntilFailure(loc, entries, i, max_file_size) ==
    IF i > Len(entries) \/ ~entries[i].entry_ok \/ ~entries[i].meta_ok THEN <<>>
    ELSE (IF KeepsEntry(entries[i], max_file_size) THEN <<DirEntryOf(loc, i)>> ELSE <<>>)
         \o ScanEntriesUntilFailure(loc, entries, i + 1, max_file_size)

\* Lines 125-133: the candidates of one directory, in listing order.
RECURSIVE ScanEntries(_, _, _, _)
ScanEntries(loc, entries, i, max_file_size) ==
    IF i > Len(entries) THEN <<>>
    ELSE (IF KeepsEntry(entries[i], max_file_size) THEN <<DirEntryOf(loc, i)>> ELSE <<>>)
         \o ScanEntries(loc, entries, i + 1, max_file_size)

\* Lines 119-139: one turn of the loop over the locations (idx is its place).
ScanLocation ==
    /\ pc = "scan"
    /\ LET locations == config.locations
       IN  IF locations.kind # "arr"
           THEN Panic /\ UNCHANGED <<files, idx>>      \* absent key, or expect(..)
           ELSE IF idx > Len(locations.a)
           THEN Goto("sorting") /\ UNCHANGED <<files, idx>>
           ELSE LET location == locations.a[idx]
                IN  IF location.kind # "str"
                    THEN Panic /\ UNCHANGED <<files, idx>>
                    ELSE LET data == Location(location.s)
                         IN  CASE data.kind = "unlistable" ->
                                    Fail("Couldn't read") /\ UNCHANGED <<files, idx>>
                               [] data.kind = "dir" ->
                                    /\ files' = files \o ScanEntries(location.s[1], data.entries,
                                                                     1, lock.max_file_size)
                                    /\ idx' = idx + 1
                                    /\ Goto("scan")
                               [] OTHER ->     \* no such path, or not a directory
                                    Goto("scan") /\ idx' = idx + 1 /\ UNCHANGED files
    /\ UNCHANGED <<config, fs, memory_size, usage, lock, patterns, to_load,
                   LOADED, outcomes, report>>

ToLower(c) == CASE c = "F" -> "f" [] c = "L" -> "l" [] c = "S" -> "s" [] OTHER -> c
to_lowercase(s) == [i \in 1..Len(s) |-> ToLower(s[i])]

\* Lines 141-156
ReadSortingMethod ==
    /\ pc = "sorting"
    /\ LET v == config.sorting_method
       IN  IF v.kind = "absent" THEN Panic /\ lock' = lock
           ELSE /\ Goto("load")
                /\ IF v.kind # "str" THEN lock' = lock
                   ELSE LET m == to_lowercase(v.s)
                        IN  lock' = [lock EXCEPT !.sorting_method =
                                        CASE m = <<"f", "l">> -> "FL"
                                          [] m = <<"l", "s">> -> "LS"
                                          [] OTHER -> "SL"]
    /\ UNCHANGED <<config, fs, memory_size, usage, files, patterns, to_load, idx,
                   LOADED, outcomes, report>>

\* The patterns of one array: every element has to be a string.
ArrayPatterns(v) ==
    IF \E i \in 1..Len(v.a) : v.a[i].kind # "str"
    THEN [panic |-> TRUE, pats |-> <<>>]
    ELSE [panic |-> FALSE, pats |-> [i \in 1..Len(v.a) |-> v.a[i].s]]

\* Lines 173-180: the patterns of the groups named from place i of lists on.
RECURSIVE ListPatterns(_, _)
ListPatterns(lists, i) ==
    IF i > Len(lists) THEN [panic |-> FALSE, pats |-> <<>>]
    ELSE IF lists[i].kind # "str" THEN [panic |-> TRUE, pats |-> <<>>]
    ELSE LET list == LoadKey(lists[i].s)
             here == IF list.kind = "absent" THEN [panic |-> TRUE, pats |-> <<>>]
                     ELSE IF list.kind = "arr" THEN ArrayPatterns(list)
                     ELSE [panic |-> FALSE, pats |-> <<>>]
             rest == ListPatterns(lists, i + 1)
         IN  IF here.panic \/ rest.panic THEN [panic |-> TRUE, pats |-> <<>>]
             ELSE [panic |-> FALSE, pats |-> here.pats \o rest.pats]

\* Lines 164-183: the flattened pattern list.
BuildPatterns ==
    /\ pc = "load"
    /\ CASE config.load = "absent" -> Panic /\ UNCHANGED <<patterns, files>>
         [] config.load = "other" -> Goto("sort") /\ UNCHANGED <<patterns, files>>
         [] OTHER ->
              LET direct == IF config.load_files.kind = "arr"
                            THEN ArrayPatterns(config.load_files)
                            ELSE [panic |-> config.load_files.kind = "absent", pats |-> <<>>]
                  listed == IF config.load_lists.kind = "arr"
                            THEN ListPatterns(config.load_lists.a, 1)
                            ELSE [panic |-> config.load_lists.kind = "absent", pats |-> <<>>]
                  all == direct.pats \o listed.pats
              IN  IF direct.panic \/ listed.panic
                  THEN Panic /\ UNCHANGED <<patterns, files>>
                  ELSE IF config.load_lists.kind # "arr"
                  THEN Fail("load table is invalid") /\ patterns' = direct.pats
                       /\ UNCHANGED files
                  ELSE /\ patterns' = all
                       /\ IF all = <<>>
                          THEN Goto("sort") /\ files' = <<>>     \* files.clear()
                          ELSE Goto("match") /\ UNCHANGED files
    /\ idx' = 1
    /\ UNCHANGED <<config, fs, memory_size, usage, lock, to_load, LOADED, outcomes, report>>

\* RegexBuilder::new(..).build() fails on a pattern that is no regex.
Malformed(pattern) == \E i \in 1..Len(pattern) : pattern[i] = "("

\* Line 186 and 189: /{pattern}\z found in the path. A pattern is its
\* segments; the segment ".*" stands for any text, separators included.
RECURSIVE is_match(_, _)
is_match(pattern, path) ==
    IF pattern = <<>> THEN FALSE
    ELSE IF Last(pattern) = ".*"
    THEN \E k \in 1..Len(path) :
            \/ Len(pattern) = 1
            \/ is_match(Front(pattern), SubSeq(path, 1, Len(path) - k))
    ELSE /\ path # <<>>
         /\ Last(path) = Last(pattern)
         /\ (Len(pattern) = 1 \/ is_match(Front(pattern), Front(path)))

\* A matcher that passes over a candidate an earlier pattern has matched.
RECURSIVE MatchesOnce(_, _, _)
MatchesOnce(pattern, cands, i) ==
    IF i > Len(cands) THEN <<>>
    ELSE (IF /\ is_match(pattern, PathOf(cands[i]))
             /\ EntryData(cands[i]).remeta
             /\ \A j \in 1..Len(to_load) : to_load[j].path # PathOf(cands[i])
          THEN <<[path |-> PathOf(cands[i]), size |-> EntryData(cands[i]).size]>>
          ELSE <<>>)
         \o MatchesOnce(pattern, cands, i + 1)

\* Lines 187-196: the matches of one pattern, in candidate order.
RECURSIVE Matches(_, _, _)
Matches(pattern, cands, i) ==
    IF i > Len(cands) THEN <<>>
    ELSE (IF is_match(pattern, PathOf(cands[i])) /\ EntryData(cands[i]).remeta
          THEN <<[path |-> PathOf(cands[i]), size |-> EntryData(cands[i]).size]>>
          ELSE <<>>)
         \o Matches(pattern, cands, i + 1)

\* Lines 185-198: one turn of the loop over the patterns; after the last
\* one the candidates are cleared.
MatchPattern ==
    /\ pc = "match"
    /\ idx <= Len(patterns)
    /\ IF Malformed(patterns[idx])
       THEN Panic /\ UNCHANGED <<to_load, idx, files>>
       ELSE /\ to_load' = to_load \o Matches(patterns[idx], files, 1)
            /\ idx' = idx + 1
            /\ IF idx = Len(patterns)
               THEN Goto("sort") /\ files' = <<>>
               ELSE Goto("match") /\ UNCHANGED files
    /\ UNCHANGED <<config, fs, memory_size, usage, lock, patterns, LOADED, outcomes, report>>

\* Comparators that put a target before an earlier one of its size.
BeforeOrEqual(method, a, b) ==
    CASE method = "SL" -> a.size <= b.size
      [] method = "LS" -> b.size <= a.size
      [] OTHER -> FALSE

\* The comparators of lines 202 and 203: whether a sorts strictly before b.
Before(method, a, b) ==
    CASE method = "SL" -> a.size < b.size
      [] method = "LS" -> b.size < a.size
      [] OTHER -> FALSE

\* slice::sort_by is stable: an element goes before the first one it sorts
\* strictly before.
RECURSIVE InsertSorted(_, _, _)
InsertSorted(method, sorted, x) ==
    IF sorted = <<>> THEN <<x>>
    ELSE IF Before(method, x, Last(sorted))
    THEN Append(InsertSorted(method, Front(sorted), x), Last(sorted))
    ELSE Append(sorted, x)

RECURSIVE sort_by(_, _)
sort_by(method, s) ==
    IF s = <<>> THEN <<>> ELSE InsertSorted(method, sort_by(method, Front(s)), Last(s))

\* Lines 201-205
SortTargets ==
    /\ pc = "sort"
    /\ to_load' = IF lock.sorting_method = "FL" THEN to_load
                  ELSE sort_by(lock.sorting_method, to_load)
    /\ idx' = 1
    /\ Goto("alloc")
    /\ UNCHANGED <<config, fs, memory_size, usage, lock, files, patterns,
                   LOADED, outcomes, report>>

\* A test that forgets the running total.
OverBudgetAlone(current_size, size, max_total_size) == size > max_total_size

\* A test that also refuses the target that fills the budget exactly.
OverBudgetOrFull(current_size, size, max_total_size) ==
    current_size + size >= max_total_size

\* Line 207
OverBudget(current_size, size, max_total_size) == current_size + size > max_total_size

\* Mmap::len(): the length of the file mapped
MmapLen(path) ==
    LET entries == fs[path[1]].entries
    IN  entries[CHOOSE i \in 1..Len(entries) : entries[i].name = path[2]].size

\* A pass in which a failed map ends daemon_setup with an Err.
LoadTargetMapFatal ==
    /\ pc = "alloc"
    /\ idx <= Len(to_load)
    /\ LET target == to_load[idx]
       IN  IF OverBudget(lock.current_size, target.size, lock.max_total_size)
           THEN /\ outcomes' = Append(outcomes, "budget")
                /\ idx' = idx + 1
                /\ Goto("alloc")
                /\ UNCHANGED <<lock, LOADED>>
           ELSE \E result \in {"open failed", "map failed", "lock failed", "locked"} :
                  /\ outcomes' = Append(outcomes, result)
                  /\ CASE result = "lock failed" -> Panic /\ UNCHANGED <<lock, LOADED, idx>>
                       [] result = "map failed" ->
                            Fail("Failed to map") /\ UNCHANGED <<lock, LOADED, idx>>
                       [] result = "locked" ->
                            /\ lock' = [lock EXCEPT !.current_size = @ + MmapLen(target.path)]
                            /\ LOADED' = Append(LOADED, [path |-> target.path,
                                                         len |-> MmapLen(target.path)])
                            /\ idx' = idx + 1
                            /\ Goto("alloc")
                       [] OTHER -> Goto("alloc") /\ idx' = idx + 1 /\ UNCHANGED <<lock, LOADED>>
    /\ UNCHANGED <<config, fs, memory_size, usage, files, patterns, to_load, report>>

\* Lines 206-223: one turn of the loop over the targets. Opening and mapping
\* may fail, and the turn ends; mmap.lock() failing panics.
LoadTarget ==
    /\ pc = "alloc"
    /\ idx <= Len(to_load)
    /\ LET target == to_load[idx]
       IN  IF OverBudget(lock.current_size, target.size, lock.max_total_size)
           THEN /\ outcomes' = Append(outcomes, "budget")
                /\ idx' = idx + 1
                /\ Goto("alloc")
                /\ UNCHANGED <<lock, LOADED>>
           ELSE \E result \in {"open failed", "map failed", "lock failed", "locked"} :
                  /\ outcomes' = Append(outcomes, result)
                  /\ CASE result = "lock failed" -> Panic /\ UNCHANGED <<lock, LOADED, idx>>
                       [] result = "locked" ->
                            /\ lock' = [lock EXCEPT !.current_size = @ + MmapLen(target.path)]
                            /\ LOADED' = Append(LOADED, [path |-> target.path,
                                                         len |-> MmapLen(target.path)])
                            /\ idx' = idx + 1
                            /\ Goto("alloc")
                       [] OTHER -> Goto("alloc") /\ idx' = idx + 1 /\ UNCHANGED <<lock, LOADED>>
    /\ UNCHANGED <<config, fs, memory_size, usage, files, patterns, to_load, report>>

\* Lines 225-228: the summary line, and Ok(()).
FinishSetup ==
    /\ pc = "alloc"
    /\ idx > Len(to_load)
    /\ Goto("ok")
    /\ UNCHANGED <<config, fs, memory_size, usage, lock, files, patterns, to_load, idx,
                   LOADED, outcomes, report>>

-----------------------------------------------------------------------------
(* main *)

\* The unit bytes_to_size prints a size in (the digits are not modelled).
bytes_to_size(num) ==
    [num |-> num,
     unit |-> IF num \div GIB > 0 THEN "g"
              ELSE IF num \div MIB > 0 THEN "m"
              ELSE IF num \div KIB > 0 THEN "k"
              ELSE ""]

\* Lines 237-243 and 249-250
daemon_usage ==
    /\ pc = "ok"
    /\ usage
    /\ report' = [i \in 1..Len(LOADED) |->
                    [path |-> LOADED[i].path, size |-> bytes_to_size(LOADED[i].len)]]
    /\ pc' = "exit0"
    /\ UNCHANGED <<config, fs, memory_size, usage, err, lock, files, patterns, to_load,
                   idx, LOADED, outcomes>>

\* Lines 251-253: enter the idle loop
StartRun ==
    /\ pc = "ok"
    /\ ~usage
    /\ pc' = "run"
    /\ UNCHANGED <<config, fs, memory_size, usage, err, lock, files, patterns, to_load,
                   idx, LOADED, outcomes, report>>

\* Lines 231-235: one sleep of the idle loop
daemon_run ==
    /\ pc = "run"
    /\ UNCHANGED vars

\* A main that drops daemon_setup's result and idles all the same.
IgnoreSetupError ==
    /\ pc = "err"
    /\ pc' = "run"
    /\ UNCHANGED <<config, fs, memory_size, usage, err, lock, files, patterns, to_load,
                   idx, LOADED, outcomes, report>>

\* Line 248: the ? hands the Err to main's caller
ExitWithError ==
    /\ pc = "err"
    /\ pc' = "exit1"
    /\ UNCHANGED <<config, fs, memory_size, usage, err, lock, files, patterns, to_load,
                   idx, LOADED, outcomes, report>>

Next ==
    \/ ReadConfig
    \/ BuildPolicy
    \/ ScanLocation
    \/ ReadSortingMethod
    \/ BuildPatterns
    \/ MatchPattern
    \/ SortTargets
    \/ LoadTarget
    \/ FinishSetup
    \/ daemon_usage
    \/ StartRun
    \/ daemon_run
    \/ ExitWithError

Spec == Init /\ [][Next]_vars
-----------------------------------------------------------------------------
(* The budget *)

AbnormalEnd == pc \in {"err", "exit1", "panic"}
SetupDone == pc \in {"ok", "run", "exit0"}
IOFailures == {"open failed", "map failed", "lock failed"}

\* The bytes the targets locked among the first k visited account for.
RECURSIVE AdmittedBytes(_)
AdmittedBytes(k) ==
    IF k = 0 THEN 0
    ELSE AdmittedBytes(k - 1) + (IF outcomes[k] = "locked" THEN to_load[k].size ELSE 0)

\* C1: in every state of the allocator pass and after it, current_size is
\* the sum of the lengths of the mappings in LOADED and is at most
\* max_total_size (before the pass both are 0).
C1_BudgetInvariant ==
    /\ lock.current_size = SumLen(LOADED)
    /\ lock.current_size <= lock.max_total_size

\* C1's case: the pass is over with several files locked, one target skipped
\* for the budget and one lost to a failed map.
C1_Witness ==
    /\ pc = "run"
    /\ Len(LOADED) >= 2
    /\ \E i, j \in 1..Len(outcomes) : outcomes[i] = "budget" /\ outcomes[j] = "map failed"
    /\ lock.current_size = lock.max_total_size

\* C2: a visited target is skipped for the budget exactly when the running
\* total plus its size exceeds max_total_size, the pass ends only when every
\* target has been visited, and max_total_size 25 with sizes 10, 20, 5 and no
\* failure admits 10 and 5 and ends with current_size 15.
C2_SkipAndContinue ==
    /\ \A i \in 1..Len(outcomes) :
          (outcomes[i] = "budget") <=>
              (AdmittedBytes(i - 1) + to_load[i].size > lock.max_total_size)
    /\ SetupDone => Len(outcomes) = Len(to_load)
    /\ (/\ SetupDone
        /\ lock.max_total_size = 25
        /\ Sizes(to_load) = <<10, 20, 5>>
        /\ \A i \in 1..Len(outcomes) : outcomes[i] \notin IOFailures)
       => (Lens(LOADED) = <<10, 5>> /\ lock.current_size = 15)

\* C2's case: 20 was skipped and 5 after it admitted.
C2_Witness ==
    /\ pc = "run"
    /\ lock.max_total_size = 25
    /\ Sizes(to_load) = <<10, 20, 5>>
    /\ outcomes = <<"locked", "budget", "locked">>
    /\ Lens(LOADED) = <<10, 5>>
    /\ lock.current_size = 15
-----------------------------------------------------------------------------
(* Failures *)

\* The allocator loop has just visited a target, with this outcome.
Visited(result) ==
    /\ Len(outcomes') = Len(outcomes) + 1
    /\ Last(outcomes') = result

IsPrefix(s, t) == Len(s) <= Len(t) /\ SubSeq(t, 1, Len(s)) = s

-----------------------------------------------------------------------------
(* The size limits *)

Units == {"k", "m", "g", "%"}

\* A text <digits><unit>?
IsSizeSpec(t) ==
    /\ DigitPrefix(t) # <<>>
    /\ \/ Len(t) = Len(DigitPrefix(t))
       \/ Len(t) = Len(DigitPrefix(t)) + 1 /\ Last(t) \in Units

Magnitude(t) == DecVal(DigitPrefix(t))
UnitOf(t) == IF Len(t) > Len(DigitPrefix(t)) THEN Last(t) ELSE ""

\* bytes is magnitude v times the factor
IsMultiple(bytes, v, factor) == bytes % factor = 0 /\ bytes \div factor = v

\* What the Size Resolver is specified to give for the text t.
ResolvesTo(bytes, t, total_memory) ==
    LET v == Magnitude(t)
    IN  IF v = 0 THEN bytes = 0
        ELSE CASE UnitOf(t) = "k" -> IsMultiple(bytes, v, KIB)
               [] UnitOf(t) = "m" -> IsMultiple(bytes, v, MIB)
               [] UnitOf(t) = "g" -> IsMultiple(bytes, v, GIB)
               [] UnitOf(t) = "%" -> bytes = total_memory \div v
               [] OTHER -> bytes = v

\* Both limits have been read from the [lock] table.
PolicyRead ==
    /\ pc \notin {"start", "lock"}
    /\ config.file = "ok"
    /\ config.lock = "table"

\* C5: once the limits are read, a limit given as <digits><unit>? is the
\* magnitude for no unit, the magnitude times 1024, 1024^2 or 1024^3 for k,
\* m and g, total memory divided by the magnitude for %, and 0 for
\* magnitude 0.
C5_ResolverAsSpecified ==
    /\ (/\ PolicyRead
        /\ config.max_file_size.kind = "str"
        /\ IsSizeSpec(config.max_file_size.s))
       => ResolvesTo(lock.max_file_size, config.max_file_size.s, lock.memory_size)
    /\ (/\ PolicyRead
        /\ config.max_file_size.kind # "absent"
        /\ config.max_total_size.kind = "str"
        /\ IsSizeSpec(config.max_total_size.s))
       => ResolvesTo(lock.max_total_size, config.max_total_size.s, lock.memory_size)

\* A limit the configuration does not give, or gives as a text that is no
\* <digits><unit>?.
Unresolved(v) == v.kind = "absent" \/ (v.kind = "str" /\ ~IsSizeSpec(v.s))

ZeroErrors == {"Max total size is zero!", "Max file size is zero!"}

\* setup has not failed over the limits
PolicyAccepted ==
    /\ ~(pc \in {"err", "exit1"} /\ err \in ZeroErrors)
    /\ ~(pc = "panic" /\ outcomes = <<>>)

\* C6: a limit that is unspecified or unresolved takes its default, 20 MiB
\* for max_file_size and total memory / 10 for max_total_size, and setup
\* goes on.
C6_DefaultsApplied ==
    /\ (PolicyRead /\ Unresolved(config.max_file_size))
       => (lock.max_file_size = 20 * MIB /\ PolicyAccepted)
    /\ (PolicyRead /\ Unresolved(config.max_total_size))
       => (lock.max_total_size = lock.memory_size \div 10 /\ PolicyAccepted)
-----------------------------------------------------------------------------
(* Candidates and their order *)

Range(s) == {s[i] : i \in 1..Len(s)}

\* The candidate list is complete and not yet cleared.
CandidatesScanned == pc \in {"sorting", "load", "match"}

\* C7: of the entries whose metadata the scanner reads in a configured
\* directory, the candidates are exactly the regular files of size at most
\* max_file_size; and no mapping in LOADED is longer than max_file_size.
C7_PerFileCap ==
    /\ CandidatesScanned =>
          \A k \in 1..Len(config.locations.a) :
              LET loc == config.locations.a[k].s
              IN  Location(loc).kind = "dir" =>
                      \A i \in 1..Len(Location(loc).entries) :
                          LET e == Location(loc).entries[i]
                          IN  (e.entry_ok /\ e.meta_ok) =>
                                  (DirEntryOf(loc[1], i) \in Range(files)
                                      <=> (e.kind = "file" /\ e.size <= lock.max_file_size))
    /\ \A i \in 1..Len(to_load) : to_load[i].size <= lock.max_file_size
    /\ \A i \in 1..Len(LOADED) : LOADED[i].len <= lock.max_file_size

\* C7's case: a file exactly as large as the cap is locked, and the file of
\* the same directory one byte larger was never a target.
C7_Witness ==
    /\ pc = "run"
    /\ \E i \in 1..Len(LOADED) : LOADED[i].len = lock.max_file_size
    /\ \E i \in 1..Len(fs["lib"].entries) :
          /\ fs["lib"].entries[i].kind = "file"
          /\ fs["lib"].entries[i].size = lock.max_file_size + 1
          /\ <<"lib", fs["lib"].entries[i].name>> \notin Range(Paths(to_load))

\* The targets of s of size v, in their order in s
OfSize(s, v) == LET Test(x) == x.size = v IN SelectSeq(s, Test)

SizesOf(s) == {s[i].size : i \in 1..Len(s)}

\* t holds the targets of s, those of one size in the order they have in s.
IsStableReordering(s, t) ==
    /\ Len(t) = Len(s)
    /\ \A v \in SizesOf(s) \cup SizesOf(t) : OfSize(t, v) = OfSize(s, v)

\* C8: the sorter leaves the targets as they are under FL, and under SL and
\* LS reorders them to non-decreasing and non-increasing size, equal sizes
\* keeping their order; sizes 30, 10, 20 become 10, 20, 30 under SL,
\* 30, 20, 10 under LS and stay 30, 10, 20 under FL.
C8_SelectionSorter ==
    [][pc = "sort" =>
        /\ IsStableReordering(to_load, to_load')
        /\ lock.sorting_method = "FL" => to_load' = to_load
        /\ lock.sorting_method = "SL" =>
              \A i, j \in 1..Len(to_load') : i < j => to_load'[i].size <= to_load'[j].size
        /\ lock.sorting_method = "LS" =>
              \A i, j \in 1..Len(to_load') : i < j => to_load'[i].size >= to_load'[j].size
        /\ Sizes(to_load) = <<30, 10, 20>> =>
              Sizes(to_load') = CASE lock.sorting_method = "SL" -> <<10, 20, 30>>
                                  [] lock.sorting_method = "LS" -> <<30, 20, 10>>
                                  [] OTHER -> <<30, 10, 20>>]_vars

\* C8's case: the directory listed 30, 10, 10, and the smallest-first sort
\* has put the two files of size 10 first, in their listing order.
C8_Witness ==
    /\ pc = "alloc"
    /\ outcomes = <<>>
    /\ lock.sorting_method = "SL"
    /\ Sizes(fs["lib"].entries) = <<30, 10, 10>>
    /\ to_load = <<[path |-> <<"lib", "b">>, size |-> 10],
                   [path |-> <<"lib", "c">>, size |-> 10],
                   [path |-> <<"lib", "a">>, size |-> 30]>>
-----------------------------------------------------------------------------
(* Patterns and locations *)

\* The patterns of the groups the first n list references name.
RECURSIVE GroupPatterns(_)
GroupPatterns(n) ==
    IF n = 0 THEN <<>>
    ELSE GroupPatterns(n - 1) \o
         (LET group == LoadKey(config.load_lists.a[n].s)
          IN  IF group.kind = "arr" THEN [i \in 1..Len(group.a) |-> group.a[i].s] ELSE <<>>)

DirectPatterns ==
    IF config.load_files.kind = "arr"
    THEN [i \in 1..Len(config.load_files.a) |-> config.load_files.a[i].s]
    ELSE <<>>

\* The candidates the pattern matches and whose metadata can be read again,
\* as targets, in scan order.
TargetsOf(pattern) ==
    LET Hit(de) == is_match(pattern, PathOf(de)) /\ EntryData(de).remeta
        hits == SelectSeq(files, Hit)
    IN  [i \in 1..Len(hits) |-> [path |-> PathOf(hits[i]), size |-> EntryData(hits[i]).size]]

\* The targets of the first n patterns, pattern by pattern.
RECURSIVE PatternMajor(_)
PatternMajor(n) == IF n = 0 THEN <<>> ELSE PatternMajor(n - 1) \o TargetsOf(patterns[n])

CandidatePaths == [i \in 1..Len(files) |-> PathOf(files[i])]

Occurrences(s, x) == Cardinality({i \in 1..Len(s) : s[i] = x})

LockedTargets == {i \in 1..Len(outcomes) : outcomes[i] = "locked"}

\* C9: the pattern list is the direct patterns followed by each referenced
\* group's patterns, in order and with repetitions; matching appends, pattern
\* by pattern, every candidate the pattern matches in scan order, so that a
\* candidate is a target once for each pattern that matches it; and each
\* target locked is one more entry of LOADED and adds its size to
\* current_size, whether or not its file is already there.
C9_PatternMajorDuplicates ==
    /\ [](pc = "match" =>
            patterns = DirectPatterns \o GroupPatterns(Len(config.load_lists.a)))
    /\ [][(pc = "match" /\ pc' # "panic") =>
            /\ to_load' = PatternMajor(idx)
            /\ \A c \in 1..Len(files) :
                  EntryData(files[c]).remeta =>
                      Occurrences(Paths(to_load'), PathOf(files[c])) =
                          Occurrences(CandidatePaths, PathOf(files[c])) *
                          Cardinality({n \in 1..idx : is_match(patterns[n], PathOf(files[c]))})]_vars
    /\ [](/\ Len(LOADED) = Cardinality(LockedTargets)
          /\ lock.current_size = AdmittedBytes(Len(outcomes))
          /\ \A p \in Range(Paths(to_load)) :
                Occurrences(Paths(LOADED), p) =
                    Cardinality({i \in LockedTargets : to_load[i].path = p}))

\* C9's case: lib/a matched three of the four patterns; two of its three
\* targets fit the budget and both are in LOADED and in current_size.
C9_Witness ==
    /\ pc = "run"
    /\ patterns = <<<<"a">>, <<"lib", "a">>, <<"a">>, <<"c">>>>
    /\ Paths(to_load) = <<<<"lib", "a">>, <<"lib", "a">>, <<"lib", "a">>, <<"lib", "c">>>>
    /\ outcomes = <<"locked", "locked", "budget", "locked">>
    /\ Paths(LOADED) = <<<<"lib", "a">>, <<"lib", "a">>, <<"lib", "c">>>>
    /\ lock.current_size = 25

\* The scanner is at a location of the configuration.
AtLocation ==
    /\ pc = "scan"
    /\ config.locations.kind = "arr"
    /\ idx <= Len(config.locations.a)
    /\ config.locations.a[idx].kind = "str"

Scanned == Location(config.locations.a[idx].s)
NewCandidates == Range(SubSeq(files', Len(files) + 1, Len(files')))

\* C10: a location that does not exist or is no directory is passed over
\* without an error; a directory that cannot be listed ends setup with an
\* Err and nothing locked; in a directory that can, an entry that cannot be
\* read or whose metadata cannot be read is no candidate and every regular
\* file within the cap, before it or after it, is one, and the scan goes on
\* with the next location.
C10_ScannerFailures ==
    /\ [][AtLocation =>
            /\ Scanned.kind \in {"missing", "file"} =>
                  (pc' = "scan" /\ err' = "" /\ idx' = idx + 1 /\ files' = files)
            /\ Scanned.kind = "unlistable" =>
                  (pc' = "err" /\ err' = "Couldn't read" /\ LOADED' = <<>>)
            /\ Scanned.kind = "dir" =>
                  /\ pc' = "scan" /\ err' = "" /\ idx' = idx + 1
                  /\ IsPrefix(files, files')
                  /\ \A i \in 1..Len(Scanned.entries) :
                        LET e == Scanned.entries[i]
                        IN  DirEntryOf(config.locations.a[idx].s[1], i) \in NewCandidates
                              <=> /\ e.entry_ok /\ e.meta_ok
                                  /\ e.kind = "file" /\ e.size <= lock.max_file_size]_vars
    /\ [](err = "Couldn't read" => (pc \in {"err", "exit1"} /\ LOADED = <<>>))

\* C10's case: the first location does not exist, the second holds an
\* entry whose metadata cannot be read, and the file listed after that entry
\* is locked.
C10_Witness ==
    /\ pc = "run"
    /\ config.locations = Arr(<<Str(<<"none">>), Str(<<"bin">>)>>)
    /\ ~fs["bin"].entries[3].meta_ok
    /\ <<"bin", fs["bin"].entries[3].name>> \notin Range(Paths(to_load))
    /\ <<"bin", fs["bin"].entries[6].name>> \in Range(Paths(LOADED))

====
